---- MODULE Spec2Model ----
(***************************************************************************)
(* Realtime editor gateway of HedgeDoc: admission of WebSocket clients     *)
(* (RealtimeEditorGateway.handleConnection / handleDisconnect), the        *)
(* note-client mapping, and the per-frame dispatch of the Yjs adapter      *)
(* (YjsAdapter.bindMessageHandlers).                                       *)
(*                                                                         *)
(* Strings the code inspects character by character (the request path,     *)
(* the note locator) are sequences of one-character strings.  Binary       *)
(* frames are sequences of bytes.                                          *)
(***************************************************************************)
EXTENDS Integers, Sequences, FiniteSets, TLC

\* ------------------------------------------------------------------ bounds
NumClients == 2
MaxDisconnects == 2

Clients == 1..NumClients

\* ------------------------------------------------------- values and inputs
Undefined == "undefined"

\* The literal prefix of the path pattern /^\/realtime\/(.+)$/ .
RealtimePrefix == <<"/", "r", "e", "a", "l", "t", "i", "m", "e", "/">>

\* Characters the regular expression's '.' does not match.
LineTerminators == {"\n", "\r"}

\* The notes of the database: internal id, public id and aliases.
Notes ==
  { [id |-> "n1", publicId |-> <<"p", "1">>, aliases |-> {<<"a", "1">>}],
    [id |-> "n2", publicId |-> <<"p", "2">>, aliases |-> {}] }

NoteIds == {n.id : n \in Notes}

\* appConfig.forbiddenNoteIds
ForbiddenNoteIds == {<<"f", "b">>}

\* req of an incoming connection: req.url may be undefined.
Requests ==
  { [defined |-> FALSE, url |-> <<>>],
    [defined |-> TRUE, url |-> RealtimePrefix],
    [defined |-> TRUE, url |-> <<"/", "p", "1">>],
    [defined |-> TRUE, url |-> RealtimePrefix \o <<"p", "1">>],
    [defined |-> TRUE, url |-> RealtimePrefix \o <<"a", "1">>],
    [defined |-> TRUE, url |-> RealtimePrefix \o <<"p", "2">>],
    [defined |-> TRUE, url |-> RealtimePrefix \o <<"z", "z">>],
    [defined |-> TRUE, url |-> RealtimePrefix \o <<"f", "b">>] }

NoRequest == [defined |-> FALSE, url |-> <<"-">>]

\* The frames clients send: empty, one byte per category, an unknown
\* category, a continuation byte with nothing after it, two-byte encodings
\* of 0, 1 and 128, and a category followed by a payload byte.
Frames ==
  { <<>>, <<0>>, <<1>>, <<100>>, <<2>>, <<128>>,
    <<128, 0>>, <<129, 0>>, <<128, 1>>, <<100, 0>>, <<1, 2>> }

VARIABLES
  pc,            \* position of handleConnection for each client
  req,           \* the request each client connected with
  calls,         \* what handleConnection has called so far, per client, in order
  closed,        \* client.close() has been called by the gateway
  lookup,        \* outcome of getNoteByIdOrAlias for the client
  allowed,       \* outcome of mayRead for the client
  disconnects,   \* number of handleDisconnect invocations per client
  noteClientMap, \* the gateway's NoteClientMap instance
  lastFrame,     \* what the 'message' listener did with the last frame
  effects        \* what the handlers did besides updating the note-client
                 \* map: frames sent to clients, presence entries stored,
                 \* updates merged, sessions created or finalized

gatewayVars == <<pc, req, calls, closed, lookup, allowed, disconnects,
                 noteClientMap, lastFrame, effects>>

\* ---- NotesService: bounds and values
MaxAliases == 2      \* alias rows ever created
MaxRevisions == 2    \* revisions of one note
NumCalls == 2        \* makeAliasPrimary calls that may be in flight

PrimaryCalls == 1..NumCalls

\* Alias names a caller may pass; the last one is forbidden.
AliasNames == {<<"a">>, <<"b">>, <<"f", "b">>}

Contents == {"x", "y"}
UserNames == {"u1"}
NoOwner == "none"

\* No alias row (findOne returned undefined, or nothing loaded yet).
NoRow == [id |-> 0, name |-> <<>>, note |-> Undefined, primary |-> FALSE]

\* No note entity.
NoNote ==
  [exists |-> FALSE, owner |-> NoOwner, revisions |-> <<>>,
   userPermissions |-> <<>>, groupPermissions |-> <<>>]

\* A makeAliasPrimary call slot that is not running.
IdleCall ==
  [pc |-> "idle", note |-> Undefined, oldPrimaryId |-> 0, newPrimaryId |-> 0,
   oldPrimary |-> NoRow, newPrimary |-> NoRow]

\* NotePermissionsUpdateDto values: sharedToUsers and sharedToGroups, each
\* entry a name with canEdit.
PermissionUpdates ==
  LET P(name, canEdit) == [name |-> name, canEdit |-> canEdit]
  IN { [sharedToUsers |-> <<>>, sharedToGroups |-> <<>>],
       [sharedToUsers |-> <<P("u1", TRUE)>>, sharedToGroups |-> <<>>],
       [sharedToUsers |-> <<P("u1", FALSE), P("u2", TRUE)>>,
        sharedToGroups |-> <<P("g1", TRUE)>>],
       [sharedToUsers |-> <<P("u1", TRUE), P("u1", FALSE)>>,
        sharedToGroups |-> <<>>],
       [sharedToUsers |-> <<P("u2", TRUE)>>,
        sharedToGroups |-> <<P("g1", TRUE), P("g1", TRUE)>>] }

VARIABLES
  notesTable,    \* the note table: each note's owner, revisions, permissions
  aliasTable,    \* the alias table: rows with id, name, note and primary
  nextAliasId,   \* the id the next alias row gets
  primaryCalls,  \* the makeAliasPrimary calls in flight, with their locals
  lastCall       \* outcome of the last createNote, updateNote or
                 \* updateNotePermissions call

serviceVars == <<notesTable, aliasTable, nextAliasId, primaryCalls, lastCall>>

vars == <<gatewayVars, serviceVars>>

admissionVars == <<pc, req, calls, closed, lookup, allowed>>
frameVars == <<lastFrame>>

\* ------------------------------------------------ path parsing (gateway)
\* req.url ?? ''
UrlOf(r) == IF r.defined THEN r.url ELSE <<>>

\* /^\/realtime\/(.+)$/.exec(url): the match and its first group.
PathMatching_EmptyLocator(url) ==
  LET n == Len(RealtimePrefix)
  IN IF /\ Len(url) >= n
        /\ SubSeq(url, 1, n) = RealtimePrefix
        /\ \A i \in (n + 1)..Len(url) : url[i] \notin LineTerminators
     THEN [matched |-> TRUE, locator |-> SubSeq(url, n + 1, Len(url))]
     ELSE [matched |-> FALSE, locator |-> <<>>]

PathMatching(url) ==
  LET n == Len(RealtimePrefix)
  IN IF /\ Len(url) > n
        /\ SubSeq(url, 1, n) = RealtimePrefix
        /\ \A i \in (n + 1)..Len(url) : url[i] \notin LineTerminators
     THEN [matched |-> TRUE, locator |-> SubSeq(url, n + 1, Len(url))]
     ELSE [matched |-> FALSE, locator |-> <<>>]

\* ------------------------------------------------- notes service lookup
\* checkNoteIdOrAlias throws ForbiddenIdError for a forbidden identifier.
CheckNoteIdOrAlias(noteIdOrAlias) == noteIdOrAlias \in ForbiddenNoteIds

NoLookup == [kind |-> "none", id |-> Undefined]

\* A query whose alias condition does not tie the alias to the note: any
\* note is returned once some note has the alias.
GetNoteByIdOrAlias_AliasMatchesAny(noteIdOrAlias) ==
  IF CheckNoteIdOrAlias(noteIdOrAlias)
  THEN {[kind |-> "ForbiddenIdError", id |-> Undefined]}
  ELSE LET found == {n \in Notes :
                       \/ n.publicId = noteIdOrAlias
                       \/ \E other \in Notes : noteIdOrAlias \in other.aliases}
       IN IF found = {}
          THEN {[kind |-> "NotInDBError", id |-> Undefined]}
          ELSE {[kind |-> "note", id |-> n.id] : n \in found}

\* The outcomes of getNoteByIdOrAlias: an error, or one of the notes the
\* query matches (getOne picks one).
GetNoteByIdOrAlias(noteIdOrAlias) ==
  IF CheckNoteIdOrAlias(noteIdOrAlias)
  THEN {[kind |-> "ForbiddenIdError", id |-> Undefined]}
  ELSE LET found == {n \in Notes : \/ n.publicId = noteIdOrAlias
                                   \/ noteIdOrAlias \in n.aliases}
       IN IF found = {}
          THEN {[kind |-> "NotInDBError", id |-> Undefined]}
          ELSE {[kind |-> "note", id |-> n.id] : n \in found}

\* ----------------------------------------------------- note-client map
EmptyNoteClientMap ==
  [clientToNote |-> [c \in Clients |-> Undefined],
   noteToClients |-> [d \in NoteIds |-> {}]]

GetNoteIdByClient(m, client) == m.clientToNote[client]

AddClient_Overwrite(m, client, noteId) ==
  [map |-> [clientToNote |-> [m.clientToNote EXCEPT ![client] = noteId],
            noteToClients |-> [m.noteToClients EXCEPT ![noteId] = @ \cup {client}]],
   err |-> "none"]

AddClient(m, client, noteId) ==
  IF m.clientToNote[client] # Undefined
  THEN [map |-> m, err |-> "AlreadyAttachedError"]
  ELSE [map |-> [clientToNote |-> [m.clientToNote EXCEPT ![client] = noteId],
                 noteToClients |-> [m.noteToClients EXCEPT ![noteId] = @ \cup {client}]],
        err |-> "none"]

RemoveClient_KeepsPeerEntry(m, client) ==
  [clientToNote |-> [m.clientToNote EXCEPT ![client] = Undefined],
   noteToClients |-> m.noteToClients]

RemoveClient(m, client) ==
  [clientToNote |-> [m.clientToNote EXCEPT ![client] = Undefined],
   noteToClients |-> [d \in NoteIds |-> m.noteToClients[d] \ {client}]]

Peers(m, noteId, excluding) == m.noteToClients[noteId] \ {excluding}

\* ------------------------------------------- handleConnection, resumed
\* The catch block of the lookup: close the client and return.
LookupFailed(m) ==
  [calls |-> << <<"close">> >>, closed |-> TRUE, map |-> m, pc |-> "returned"]

\* The denial branch of the permission check: close the client and return.
ReadDenied(m, noteId) ==
  [calls |-> << <<"mayRead", noteId>>, <<"close">> >>,
   closed |-> TRUE, map |-> m, pc |-> "returned"]

\* The last statement: noteClientMap.addClient(client, note.id).
Admit(m, client, noteId) ==
  LET r == AddClient(m, client, noteId)
  IN [calls |-> << <<"mayRead", noteId>>, <<"addClient", noteId>> >>,
      closed |-> FALSE,
      map |-> r.map,
      pc |-> IF r.err = "none" THEN "returned" ELSE "threw"]

\* The denial branch without its return statement.
AfterLookup_DenyFallsThrough(m, client, result, mayRead) ==
  IF result.kind # "note" THEN LookupFailed(m)
  ELSE IF ~mayRead
  THEN LET r == AddClient(m, client, result.id)
       IN [calls |-> << <<"mayRead", result.id>>, <<"close">>,
                        <<"addClient", result.id>> >>,
           closed |-> TRUE,
           map |-> r.map,
           pc |-> IF r.err = "none" THEN "returned" ELSE "threw"]
  ELSE Admit(m, client, result.id)

\* The catch block without its return statement: the permission check
\* is reached with no note.
AfterLookup_ErrorFallsThrough(m, client, result, mayRead) ==
  IF result.kind # "note"
  THEN [calls |-> << <<"close">>, <<"mayRead", result.id>> >>,
        closed |-> TRUE, map |-> m, pc |-> "threw"]
  ELSE IF ~mayRead THEN ReadDenied(m, result.id)
  ELSE Admit(m, client, result.id)

\* The permission check without its negation.
AfterLookup_InvertedCheck(m, client, result, mayRead) ==
  IF result.kind # "note" THEN LookupFailed(m)
  ELSE IF mayRead THEN ReadDenied(m, result.id)
  ELSE Admit(m, client, result.id)

\* What handleConnection does once getNoteByIdOrAlias has settled with
\* `result` and, for a note, mayRead answers `mayRead`.
AfterLookup(m, client, result, mayRead) ==
  IF result.kind # "note" THEN LookupFailed(m)
  ELSE IF ~mayRead THEN ReadDenied(m, result.id)
  ELSE Admit(m, client, result.id)

\* --------------------------------------------------- handleDisconnect
DisconnectMap_NoRemove(m, client) == m

DisconnectMap(m, client) ==
  IF GetNoteIdByClient(m, client) = Undefined THEN m ELSE RemoveClient(m, client)

\* handleDisconnect does nothing after removeClient: finalizing the note
\* of the last client is left as a TODO.
DisconnectEffects(m, client) == {}

\* ------------------------------------------------- per-frame dispatch
\* decoding.readVarUint: seven bits per byte, least significant first,
\* the last byte is the first one below 128; fails when the frame ends
\* before such a byte.
RECURSIVE VarUintFrom(_, _, _, _)
VarUintFrom(data, pos, num, mult) ==
  IF pos > Len(data)
  THEN [threw |-> TRUE, value |-> 0]
  ELSE LET r == data[pos]
           n == num + (r % 128) * mult
       IN IF r < 128
          THEN [threw |-> FALSE, value |-> n]
          ELSE VarUintFrom(data, pos + 1, n, mult * 128)

ReadVarUint(data) == VarUintFrom(data, 1, 0, 1)

\* The handlers the gateway subscribes, in declaration order.
Handlers == <<"messageSync", "messageAwareness", "messageHedgeDoc">>

MessageTypeMap_WrongControlTag(messageType) ==
  CASE messageType = 0 -> "messageSync"
    [] messageType = 1 -> "messageAwareness"
    [] messageType = 2 -> "messageHedgeDoc"
    [] OTHER -> Undefined

MessageTypeMap(messageType) ==
  CASE messageType = 0 -> "messageSync"
    [] messageType = 1 -> "messageAwareness"
    [] messageType = 100 -> "messageHedgeDoc"
    [] OTHER -> Undefined

\* A lookup that falls back to the first handler.
FindHandler_DefaultsToFirst(message) ==
  LET found == {i \in DOMAIN Handlers : Handlers[i] = message}
  IN IF found = {} THEN Handlers[1]
     ELSE Handlers[CHOOSE i \in found : \A j \in found : i <= j]

\* handlers.find(handler => handler.message === message)
FindHandler(message) ==
  LET found == {i \in DOMAIN Handlers : Handlers[i] = message}
  IN IF found = {} THEN Undefined
     ELSE Handlers[CHOOSE i \in found : \A j \in found : i <= j]

NoFrame ==
  [client |-> 0, threw |-> FALSE, messageType |-> 0, called |-> <<>>,
   prevIgnored |-> FALSE]

\* The 'message' listener on one frame: the decoded category and the
\* handlers whose callback it invokes (threw: readVarUint failed and the
\* error left the listener).
Listener(data) ==
  LET d == ReadVarUint(data)
  IN IF d.threw
     THEN [threw |-> TRUE, messageType |-> 0, called |-> <<>>]
     ELSE LET handler == FindHandler(MessageTypeMap(d.value))
          IN [threw |-> FALSE, messageType |-> d.value,
              called |-> IF handler = Undefined THEN <<>> ELSE <<handler>>]

\* The three handlers of the gateway: each logs the kind of the message
\* and returns a resolved promise.  None sends, stores or merges anything,
\* and the listener does nothing with the promise but attach a catch.
HandlerEffects(handler, m, client, data) == {}

\* The listener found no handler for the frame and returned.
Ignored(f) == f.client # 0 /\ ~f.threw /\ f.called = <<>>

\* ---------------------------------------------------------------- actions
Init ==
  /\ pc = [c \in Clients |-> "new"]
  /\ req = [c \in Clients |-> NoRequest]
  /\ calls = [c \in Clients |-> <<>>]
  /\ closed = [c \in Clients |-> FALSE]
  /\ lookup = [c \in Clients |-> NoLookup]
  /\ allowed = [c \in Clients |-> "none"]
  /\ disconnects = [c \in Clients |-> 0]
  /\ noteClientMap = EmptyNoteClientMap
  /\ lastFrame = NoFrame
  /\ effects = {}
  /\ notesTable = [n \in NoteIds |-> NoNote]
  /\ aliasTable = {}
  /\ nextAliasId = 1
  /\ primaryCalls = [k \in PrimaryCalls |-> IdleCall]
  /\ lastCall = [op |-> "none", note |-> Undefined, error |-> "none",
                 saved |-> FALSE, entity |-> NoNote]

\* handleConnection up to its first await: the path check, then the call
\* of getUserByUsername.
HandleConnection(c, r) ==
  /\ pc[c] = "new"
  /\ req' = [req EXCEPT ![c] = r]
  /\ IF PathMatching(UrlOf(r)).matched
     THEN /\ calls' = [calls EXCEPT ![c] = Append(@, <<"getUserByUsername">>)]
          /\ pc' = [pc EXCEPT ![c] = "awaitUser"]
          /\ UNCHANGED closed
     ELSE /\ calls' = [calls EXCEPT ![c] = Append(@, <<"close">>)]
          /\ closed' = [closed EXCEPT ![c] = TRUE]
          /\ pc' = [pc EXCEPT ![c] = "returned"]
  /\ UNCHANGED <<lookup, allowed, disconnects, noteClientMap, frameVars, effects>>
  /\ UNCHANGED serviceVars

\* getUserByUsername resolves: handleConnection calls getNoteByIdOrAlias
\* with the locator of the path and suspends again.
UserResolved(c) ==
  /\ pc[c] = "awaitUser"
  /\ calls' = [calls EXCEPT ![c] =
       Append(@, <<"getNoteByIdOrAlias", PathMatching(UrlOf(req[c])).locator>>)]
  /\ pc' = [pc EXCEPT ![c] = "awaitNote"]
  /\ UNCHANGED <<req, closed, lookup, allowed, disconnects, noteClientMap, frameVars,
                 effects>>
  /\ UNCHANGED serviceVars

\* getUserByUsername rejects: the await is outside the try block, so
\* handleConnection ends with the rejection.
UserRejected(c) ==
  /\ pc[c] = "awaitUser"
  /\ pc' = [pc EXCEPT ![c] = "threw"]
  /\ UNCHANGED <<req, calls, closed, lookup, allowed, disconnects, noteClientMap,
                 frameVars, effects>>
  /\ UNCHANGED serviceVars

\* getNoteByIdOrAlias settles: the rest of handleConnection runs.
NoteSettled(c) ==
  /\ pc[c] = "awaitNote"
  /\ \E result \in GetNoteByIdOrAlias(PathMatching(UrlOf(req[c])).locator) :
     \E mayRead \in (IF result.kind = "note" THEN BOOLEAN ELSE {FALSE}) :
       LET out == AfterLookup(noteClientMap, c, result, mayRead)
       IN /\ lookup' = [lookup EXCEPT ![c] = result]
          /\ allowed' = [allowed EXCEPT ![c] =
               IF result.kind # "note" THEN "none"
               ELSE IF mayRead THEN "granted" ELSE "denied"]
          /\ calls' = [calls EXCEPT ![c] = @ \o out.calls]
          /\ closed' = [closed EXCEPT ![c] = @ \/ out.closed]
          /\ noteClientMap' = out.map
          /\ pc' = [pc EXCEPT ![c] = out.pc]
  /\ UNCHANGED <<req, disconnects, frameVars, effects>>
  /\ UNCHANGED serviceVars

\* handleDisconnect, whenever the framework invokes it for a client.
HandleDisconnect(c) ==
  /\ pc[c] # "new"
  /\ disconnects[c] < MaxDisconnects
  /\ disconnects' = [disconnects EXCEPT ![c] = @ + 1]
  /\ noteClientMap' = DisconnectMap(noteClientMap, c)
  /\ effects' = effects \cup DisconnectEffects(noteClientMap, c)
  /\ UNCHANGED <<admissionVars, frameVars>>
  /\ UNCHANGED serviceVars

\* A listener that closes the sender's socket whenever it hands a frame to
\* a handler.
OnMessage_ClosesSender(c, data) ==
  /\ pc[c] # "new"
  /\ disconnects[c] = 0
  /\ LET out == Listener(data)
     IN /\ lastFrame' =
             [client |-> c, threw |-> out.threw, messageType |-> out.messageType,
              called |-> out.called,
              prevIgnored |-> lastFrame.client = c /\ Ignored(lastFrame)]
        /\ effects' = effects \cup
             UNION {HandlerEffects(out.called[i], noteClientMap, c, data) :
                      i \in DOMAIN out.called}
        /\ closed' = [closed EXCEPT ![c] = @ \/ out.called # <<>>]
  /\ UNCHANGED <<pc, req, calls, lookup, allowed, disconnects, noteClientMap>>
  /\ UNCHANGED serviceVars

\* The 'message' listener bound by bindMessageHandlers, on one frame of a
\* client whose socket has not yet been reported as disconnected.
OnMessage(c, data) ==
  /\ pc[c] # "new"
  /\ disconnects[c] = 0
  /\ LET out == Listener(data)
     IN /\ lastFrame' =
             [client |-> c, threw |-> out.threw, messageType |-> out.messageType,
              called |-> out.called,
              prevIgnored |-> lastFrame.client = c /\ Ignored(lastFrame)]
        /\ effects' = effects \cup
             UNION {HandlerEffects(out.called[i], noteClientMap, c, data) :
                      i \in DOMAIN out.called}
  /\ UNCHANGED <<admissionVars, disconnects, noteClientMap>>
  /\ UNCHANGED serviceVars

\* Admission and disconnection of clients, for every request.
Next ==
  \/ \E c \in Clients, r \in Requests : HandleConnection(c, r)
  \/ \E c \in Clients : UserResolved(c)
  \/ \E c \in Clients : UserRejected(c)
  \/ \E c \in Clients : NoteSettled(c)
  \/ \E c \in Clients : HandleDisconnect(c)

Spec == Init /\ [][Next]_vars

\* Frames of clients that connect with a rejected or an accepted path.
FrameRequests ==
  { [defined |-> TRUE, url |-> RealtimePrefix],
    [defined |-> TRUE, url |-> RealtimePrefix \o <<"p", "1">>] }

NextFrames ==
  \/ \E c \in Clients, r \in FrameRequests : HandleConnection(c, r)
  \/ \E c \in Clients : UserResolved(c)
  \/ \E c \in Clients : UserRejected(c)
  \/ \E c \in Clients : NoteSettled(c)
  \/ \E c \in Clients : HandleDisconnect(c)
  \/ \E c \in Clients, data \in Frames : OnMessage(c, data)

SpecFrames == Init /\ [][NextFrames]_vars

\* ============================================================ NotesService
\* The note and alias tables behind noteRepository and aliasRepository, and
\* the operations of NotesService that write to them.

\* No alias given to createNote (the empty string is falsy in `if (alias)`).
NoAlias == <<>>

\* Alias.create(name, primary): the alias entity before it is saved.
\* addAlias omits the second argument; an omitted argument is undefined,
\* which the filter on alias.primary in toNoteMetadataDto treats as false.
AliasCreate(id, name, note, primary) ==
  [id |-> id, name |-> name, note |-> note, primary |-> primary]

\* A note's aliases relation as loaded from the alias table.
AliasesOf(table, n) == {r \in table : r.note = n}

\* aliasRepository.findOne(id): the row with this id, if there is one.
FindOne(table, id) ==
  IF \E r \in table : r.id = id
  THEN CHOOSE r \in table : r.id = id
  ELSE NoRow

\* aliasRepository.save(alias): updates the row with the entity's id, or
\* inserts the entity when the table has no such row.
SaveAlias(table, row) == {r \in table : r.id # row.id} \cup {row}

\* removeAlias's filter: every alias of the note except a non-primary one
\* with the given name.
FilteredAliases(aliases, alias) ==
  {r \in aliases : r.name # alias \/ (r.name = alias /\ r.primary)}

\* The primary alias toNoteMetadataDto reads: filter(alias.primary)[0].
PrimaryAliases(table, n) == {r \in AliasesOf(table, n) : r.primary}

\* checkArrayForDuplicates: some value occurs at two positions of the
\* array.
CheckArrayForDuplicates(array) ==
  \E i, j \in DOMAIN array : i # j /\ array[i] = array[j]

\* Revision.create(noteContent, noteContent): the revision is identified
\* here with its content.
RevisionCreate(noteContent) == noteContent

\* The note entity updateNote saves and returns.
UpdatedNote(note, noteContent) ==
  [note EXCEPT !.revisions = Append(@, RevisionCreate(noteContent)),
               !.userPermissions = <<>>,
               !.groupPermissions = <<>>]

Min(a, b) == IF a < b THEN a ELSE b
Max(a, b) == IF a > b THEN a ELSE b

\* The permissions created before the lookup numbered failAt rejected
\* (users are looked up first, then groups); all of them if failAt = 0.
PermissionsPushed(newPermissions, failAt) ==
  LET nU == Len(newPermissions.sharedToUsers)
      nG == Len(newPermissions.sharedToGroups)
  IN IF failAt = 0
     THEN [users |-> newPermissions.sharedToUsers,
           groups |-> newPermissions.sharedToGroups]
     ELSE [users |-> SubSeq(newPermissions.sharedToUsers, 1, Min(failAt - 1, nU)),
           groups |-> SubSeq(newPermissions.sharedToGroups, 1,
                             Max(failAt - 1 - nU, 0))]

\* An updateNotePermissions that empties the permissions before it looks
\* for duplicates.
UpdatedPermissions_ClearsBeforeCheck(note, newPermissions, failAt) ==
  LET users == [i \in DOMAIN newPermissions.sharedToUsers |->
                  newPermissions.sharedToUsers[i].name]
      groups == [i \in DOMAIN newPermissions.sharedToGroups |->
                   newPermissions.sharedToGroups[i].name]
      pushed == PermissionsPushed(newPermissions, failAt)
  IN IF CheckArrayForDuplicates(users) \/ CheckArrayForDuplicates(groups)
     THEN [error |-> "PermissionsUpdateInconsistentError", saved |-> FALSE,
           entity |-> [note EXCEPT !.userPermissions = <<>>,
                                   !.groupPermissions = <<>>]]
     ELSE [error |-> IF failAt = 0 THEN "none" ELSE "NotInDBError",
           saved |-> failAt = 0,
           entity |-> [note EXCEPT !.userPermissions = pushed.users,
                                   !.groupPermissions = pushed.groups]]

\* updateNotePermissions on a note entity: the error thrown, whether the
\* note was saved, and the entity as the call leaves it.  failAt numbers
\* the getUserByUsername / getGroupByName lookup that rejects (0: none).
UpdatedPermissions(note, newPermissions, failAt) ==
  LET users == [i \in DOMAIN newPermissions.sharedToUsers |->
                  newPermissions.sharedToUsers[i].name]
      groups == [i \in DOMAIN newPermissions.sharedToGroups |->
                   newPermissions.sharedToGroups[i].name]
      pushed == PermissionsPushed(newPermissions, failAt)
  IN IF CheckArrayForDuplicates(users) \/ CheckArrayForDuplicates(groups)
     THEN [error |-> "PermissionsUpdateInconsistentError", saved |-> FALSE,
           entity |-> note]
     ELSE [error |-> IF failAt = 0 THEN "none" ELSE "NotInDBError",
           saved |-> failAt = 0,
           entity |-> [note EXCEPT !.userPermissions = pushed.users,
                                   !.groupPermissions = pushed.groups]]

\* The outcome of a call of createNote, updateNote or
\* updateNotePermissions: the operation, the note, the error thrown
\* ("none" if it returned), whether the note was saved, and the note
\* entity as the call left it.  The alias operations leave every table as
\* it was when they throw.
Outcome(op, n, error, saved, entity) ==
  [op |-> op, note |-> n, error |-> error, saved |-> saved, entity |-> entity]

\* createNote: Note.create() yields the note `id`; the save fails when the
\* alias is already in the alias table.
CreateNote(id, noteContent, alias, owner) ==
  /\ ~notesTable[id].exists
  /\ IF alias # NoAlias /\ CheckNoteIdOrAlias(alias)
     THEN /\ lastCall' = Outcome("createNote", id, "ForbiddenIdError", FALSE, NoNote)
          /\ UNCHANGED <<notesTable, aliasTable, nextAliasId>>
     ELSE IF alias # NoAlias /\ \E r \in aliasTable : r.name = alias
     THEN /\ lastCall' = Outcome("createNote", id, "AlreadyInDBError", FALSE, NoNote)
          /\ UNCHANGED <<notesTable, aliasTable, nextAliasId>>
     ELSE LET newNote == [exists |-> TRUE, owner |-> owner,
                          revisions |-> <<RevisionCreate(noteContent)>>,
                          userPermissions |-> <<>>, groupPermissions |-> <<>>]
          IN /\ alias # NoAlias => nextAliasId <= MaxAliases
             /\ notesTable' = [notesTable EXCEPT ![id] = newNote]
             /\ IF alias # NoAlias
                THEN /\ aliasTable' = aliasTable \cup
                          {AliasCreate(nextAliasId, alias, id, TRUE)}
                     /\ nextAliasId' = nextAliasId + 1
                ELSE UNCHANGED <<aliasTable, nextAliasId>>
             /\ lastCall' = Outcome("createNote", id, "none", TRUE, newNote)
  /\ UNCHANGED <<gatewayVars, primaryCalls>>

\* addAlias.
AddAlias(n, alias) ==
  /\ notesTable[n].exists
  /\ IF CheckNoteIdOrAlias(alias)
     THEN UNCHANGED <<aliasTable, nextAliasId>>     \* ForbiddenIdError
     ELSE IF \E r \in aliasTable : r.name = alias
     THEN UNCHANGED <<aliasTable, nextAliasId>>     \* AlreadyInDBError
     ELSE /\ nextAliasId <= MaxAliases
          /\ aliasTable' = aliasTable \cup
               {AliasCreate(nextAliasId, alias, n, FALSE)}
          /\ nextAliasId' = nextAliasId + 1
  /\ UNCHANGED <<gatewayVars, notesTable, primaryCalls, lastCall>>

\* removeAlias.
RemoveAlias(n, alias) ==
  /\ notesTable[n].exists
  /\ LET aliases == AliasesOf(aliasTable, n)
         filteredAliases == FilteredAliases(aliases, alias)
     IN IF Cardinality(aliases) = Cardinality(filteredAliases)
        THEN UNCHANGED aliasTable                   \* NotInDBError
        ELSE aliasTable' = aliasTable \ (aliases \ filteredAliases)
  /\ UNCHANGED <<gatewayVars, notesTable, nextAliasId, primaryCalls, lastCall>>

\* makeAliasPrimary up to its first await: the loop over note.aliases.
\* When several aliases are primary the loop keeps the last one it meets.
MakeAliasPrimary(k, n, alias) ==
  /\ primaryCalls[k].pc = "idle"
  /\ notesTable[n].exists
  /\ LET aliases == AliasesOf(aliasTable, n)
         named == {r \in aliases : r.name = alias}
     IN IF named = {}
        THEN UNCHANGED primaryCalls                 \* NotInDBError
        ELSE \E oldPrimaryId \in
                 IF PrimaryAliases(aliasTable, n) = {} THEN {0}
                 ELSE {r.id : r \in PrimaryAliases(aliasTable, n)} :
               /\ primaryCalls' = [primaryCalls EXCEPT ![k] =
                    [pc |-> "findOld", note |-> n,
                     oldPrimaryId |-> oldPrimaryId,
                     newPrimaryId |-> (CHOOSE r \in named : TRUE).id,
                     oldPrimary |-> NoRow, newPrimary |-> NoRow]]
  /\ UNCHANGED <<gatewayVars, notesTable, aliasTable, nextAliasId, lastCall>>

\* await aliasRepository.findOne(oldPrimaryId).
FindOldPrimary(k) ==
  /\ primaryCalls[k].pc = "findOld"
  /\ primaryCalls' = [primaryCalls EXCEPT ![k].pc = "findNew",
       ![k].oldPrimary = FindOne(aliasTable, primaryCalls[k].oldPrimaryId)]
  /\ UNCHANGED <<gatewayVars, notesTable, aliasTable, nextAliasId, lastCall>>

\* await aliasRepository.findOne(newPrimaryId), then the check of both.
FindNewPrimary(k) ==
  /\ primaryCalls[k].pc = "findNew"
  /\ LET newPrimary == FindOne(aliasTable, primaryCalls[k].newPrimaryId)
     IN IF primaryCalls[k].oldPrimary = NoRow \/ newPrimary = NoRow
        THEN \* throw new Error('This should not happen!')
             primaryCalls' = [primaryCalls EXCEPT ![k] = IdleCall]
        ELSE primaryCalls' = [primaryCalls EXCEPT ![k].pc = "saveOld",
               ![k].oldPrimary = [primaryCalls[k].oldPrimary EXCEPT !.primary = FALSE],
               ![k].newPrimary = [newPrimary EXCEPT !.primary = TRUE]]
  /\ UNCHANGED <<gatewayVars, notesTable, aliasTable, nextAliasId, lastCall>>

\* await aliasRepository.save(oldPrimary).
SaveOldPrimary(k) ==
  /\ primaryCalls[k].pc = "saveOld"
  /\ aliasTable' = SaveAlias(aliasTable, primaryCalls[k].oldPrimary)
  /\ primaryCalls' = [primaryCalls EXCEPT ![k].pc = "saveNew"]
  /\ UNCHANGED <<gatewayVars, notesTable, nextAliasId, lastCall>>

\* await aliasRepository.save(newPrimary), then the note is read again and
\* returned.
SaveNewPrimary(k) ==
  /\ primaryCalls[k].pc = "saveNew"
  /\ aliasTable' = SaveAlias(aliasTable, primaryCalls[k].newPrimary)
  /\ primaryCalls' = [primaryCalls EXCEPT ![k] = IdleCall]
  /\ UNCHANGED <<gatewayVars, notesTable, nextAliasId, lastCall>>

\* updateNote.
UpdateNote(n, noteContent) ==
  /\ notesTable[n].exists
  /\ Len(notesTable[n].revisions) < MaxRevisions
  /\ LET note == UpdatedNote(notesTable[n], noteContent)
     IN /\ notesTable' = [notesTable EXCEPT ![n] = note]
        /\ lastCall' = Outcome("updateNote", n, "none", TRUE, note)
  /\ UNCHANGED <<gatewayVars, aliasTable, nextAliasId, primaryCalls>>

\* updateNotePermissions.
UpdateNotePermissions(n, newPermissions, failAt) ==
  /\ notesTable[n].exists
  /\ failAt <= Len(newPermissions.sharedToUsers) + Len(newPermissions.sharedToGroups)
  /\ LET out == UpdatedPermissions(notesTable[n], newPermissions, failAt)
     IN /\ notesTable' = IF out.saved
                         THEN [notesTable EXCEPT ![n] = out.entity]
                         ELSE notesTable
        /\ lastCall' = Outcome("updateNotePermissions", n, out.error, out.saved,
                               out.entity)
  /\ UNCHANGED <<gatewayVars, aliasTable, nextAliasId, primaryCalls>>

\* Alias operations on one note, with two makeAliasPrimary calls that may
\* interleave at their awaits.
NextAliases ==
  \/ \E alias \in {NoAlias} \cup AliasNames, owner \in {NoOwner} :
       CreateNote("n1", "x", alias, owner)
  \/ \E alias \in AliasNames : AddAlias("n1", alias)
  \/ \E alias \in AliasNames : RemoveAlias("n1", alias)
  \/ \E k \in PrimaryCalls, alias \in AliasNames : MakeAliasPrimary(k, "n1", alias)
  \/ \E k \in PrimaryCalls : FindOldPrimary(k)
  \/ \E k \in PrimaryCalls : FindNewPrimary(k)
  \/ \E k \in PrimaryCalls : SaveOldPrimary(k)
  \/ \E k \in PrimaryCalls : SaveNewPrimary(k)

SpecAliases == Init /\ [][NextAliases]_vars

\* Creation of notes, and content and permission updates of one of them.
NextContent ==
  \/ \E id \in NoteIds, noteContent \in Contents, owner \in {NoOwner} \cup UserNames :
       \E alias \in {NoAlias, <<"a">>} : CreateNote(id, noteContent, alias, owner)
  \/ \E n \in {"n1"}, noteContent \in Contents : UpdateNote(n, noteContent)
  \/ \E n \in {"n1"}, newPermissions \in PermissionUpdates :
       \E failAt \in 0..(Len(newPermissions.sharedToUsers)
                           + Len(newPermissions.sharedToGroups)) :
         UpdateNotePermissions(n, newPermissions, failAt)

SpecContent == Init /\ [][NextContent]_vars

\* =================================================================== claims
Registered(c) == GetNoteIdByClient(noteClientMap, c) # Undefined

InSomeClientSet(c) == \E d \in NoteIds : c \in noteClientMap.noteToClients[d]

Called(c, name) == \E i \in DOMAIN calls[c] : calls[c][i][1] = name

\* The request path is /realtime/<non-empty locator>.
HasLocator(r) ==
  /\ r.defined
  /\ Len(r.url) > Len(RealtimePrefix)
  /\ \A i \in DOMAIN RealtimePrefix : r.url[i] = RealtimePrefix[i]

LocatorOf(r) == [i \in 1..(Len(r.url) - Len(RealtimePrefix)) |->
                   r.url[i + Len(RealtimePrefix)]]

\* The notes a locator names: by public id or by alias.
NotesNamed(loc) == {n \in Notes : n.publicId = loc \/ loc \in n.aliases}

\* C1: a client whose read access the permission check denied is closed,
\* handleConnection has returned without calling addClient, and the client
\* is in neither direction of the note-client map, in every reachable
\* state.  (The gateway keeps no presence store: the only per-client state
\* it holds is the note-client map.)
C1_DeniedClosedAndUnregistered ==
  \A c \in Clients :
    allowed[c] = "denied" =>
      /\ closed[c]
      /\ pc[c] = "returned"
      /\ ~Called(c, "addClient")
      /\ ~Registered(c)
      /\ ~InSomeClientSet(c)

\* A client was denied while another client is registered.
C1_Witness ==
  \E c, c2 \in Clients :
    /\ allowed[c] = "denied" /\ closed[c]
    /\ c2 # c /\ Registered(c2)

\* C2: a client whose request path is not /realtime/<non-empty locator>
\* (a missing URL and '/realtime/' included) is closed by handleConnection
\* with no collaborator called: close is the only call it made, and the
\* client is in neither direction of the note-client map.
C2_BadPathClosedBeforeCollaborators ==
  \A c \in Clients :
    (pc[c] # "new" /\ ~HasLocator(req[c])) =>
      /\ closed[c]
      /\ pc[c] = "returned"
      /\ calls[c] = << <<"close">> >>
      /\ lookup[c] = NoLookup /\ allowed[c] = "none"
      /\ ~Registered(c)
      /\ ~InSomeClientSet(c)

\* One client came with the empty locator and another without a URL.
C2_Witness ==
  \E c, c2 \in Clients :
    /\ req[c] = [defined |-> TRUE, url |-> RealtimePrefix] /\ closed[c]
    /\ pc[c2] # "new" /\ ~req[c2].defined /\ closed[c2]

\* C3: once the lookup of a locator that is forbidden or names no note has
\* settled, the client is closed, mayRead was never called for it and the
\* client is not registered.
C3_LookupFailureClosesWithoutAuthorization ==
  \A c \in Clients :
    ( /\ HasLocator(req[c])
      /\ pc[c] \in {"returned", "threw"}
      /\ Called(c, "getNoteByIdOrAlias")
      /\ \/ LocatorOf(req[c]) \in ForbiddenNoteIds
         \/ NotesNamed(LocatorOf(req[c])) = {} ) =>
      /\ lookup[c].kind \in {"ForbiddenIdError", "NotInDBError"}
      /\ closed[c]
      /\ pc[c] = "returned"
      /\ ~Called(c, "mayRead")
      /\ allowed[c] = "none"
      /\ ~Called(c, "addClient")
      /\ ~Registered(c)
      /\ ~InSomeClientSet(c)

\* One lookup failed for a forbidden identifier, another for a missing note.
C3_Witness ==
  \E c, c2 \in Clients :
    /\ lookup[c].kind = "ForbiddenIdError" /\ closed[c]
    /\ lookup[c2].kind = "NotInDBError" /\ closed[c2]

\* The calls of an admission that passes all three checks, in order.
AdmittedCalls(loc, noteId) ==
  << <<"getUserByUsername">>, <<"getNoteByIdOrAlias", loc>>,
     <<"mayRead", noteId>>, <<"addClient", noteId>> >>

\* C4: when the path matches, the lookup finds a note and mayRead grants,
\* handleConnection returns with the client not closed and registered
\* under the id of the note the locator names (until a handleDisconnect
\* runs), having made its calls in the order lookup, mayRead, addClient;
\* and a client is registered only if all three checks passed.
C4_AdmittedUnderNoteId ==
  \A c \in Clients :
    /\ ( /\ pc[c] = "returned"
         /\ HasLocator(req[c])
         /\ lookup[c].kind = "note"
         /\ allowed[c] = "granted" ) =>
         /\ ~closed[c]
         /\ \E n \in NotesNamed(LocatorOf(req[c])) : lookup[c].id = n.id
         /\ calls[c] = AdmittedCalls(LocatorOf(req[c]), lookup[c].id)
         /\ disconnects[c] = 0 =>
              /\ GetNoteIdByClient(noteClientMap, c) = lookup[c].id
              /\ c \in noteClientMap.noteToClients[lookup[c].id]
    /\ (Registered(c) \/ InSomeClientSet(c)) =>
         /\ HasLocator(req[c])
         /\ lookup[c].kind = "note"
         /\ allowed[c] = "granted"
         /\ GetNoteIdByClient(noteClientMap, c) = lookup[c].id
         /\ calls[c] = AdmittedCalls(LocatorOf(req[c]), lookup[c].id)

\* A client that came through the alias is registered under the note's id.
C4_Witness ==
  \E c \in Clients :
    /\ req[c] = [defined |-> TRUE, url |-> RealtimePrefix \o <<"a", "1">>]
    /\ GetNoteIdByClient(noteClientMap, c) = "n1"
    /\ ~closed[c]

\* C5 (as claimed): a client for which handleDisconnect has run is not
\* registered in the note-client map.
C5_DisconnectedNeverRegistered ==
  \A c \in Clients : disconnects[c] > 0 => ~Registered(c)

\* C6: a handleDisconnect step for an unregistered client leaves the
\* note-client map as it is; for a registered client it removes that
\* client's entry, leaves every other client's entry as it is and takes
\* nothing but that client out of the notes' client sets.  (The handler
\* has no failing path.)
C6_DisconnectRemovesExactlyTheClient ==
  [][\A c \in Clients :
       disconnects'[c] = disconnects[c] + 1 =>
         IF GetNoteIdByClient(noteClientMap, c) = Undefined
         THEN noteClientMap' = noteClientMap
         ELSE /\ GetNoteIdByClient(noteClientMap', c) = Undefined
              /\ \A x \in Clients \ {c} :
                   GetNoteIdByClient(noteClientMap', x)
                     = GetNoteIdByClient(noteClientMap, x)
              /\ \A d \in NoteIds :
                   noteClientMap'.noteToClients[d]
                     = noteClientMap.noteToClients[d] \ {c}]_vars

\* A client admitted and then disconnected twice, another still registered.
C6_Witness ==
  \E c, c2 \in Clients :
    /\ Called(c, "addClient") /\ disconnects[c] >= 2
    /\ ~Registered(c)
    /\ c2 # c /\ Registered(c2)

\* C7: every client is in the client set of at most one note, that note
\* being the one its own entry names; and addClient for a client that has
\* an entry fails with AlreadyAttachedError and returns the map unchanged,
\* whatever note it is called with.
C7_AtMostOneNotePerClient ==
  \A c \in Clients :
    /\ Cardinality({d \in NoteIds : c \in noteClientMap.noteToClients[d]}) <= 1
    /\ \A d \in NoteIds :
         c \in noteClientMap.noteToClients[d]
           => GetNoteIdByClient(noteClientMap, c) = d
    /\ Registered(c) =>
         \A d \in NoteIds :
           AddClient(noteClientMap, c, d)
             = [map |-> noteClientMap, err |-> "AlreadyAttachedError"]

\* Two clients are registered, for different notes.
C7_Witness ==
  \E c, c2 \in Clients :
    /\ GetNoteIdByClient(noteClientMap, c) = "n1"
    /\ GetNoteIdByClient(noteClientMap, c2) = "n2"

\* C8: peers(D, excluding c) is the set of clients whose entry names D,
\* without c; so a client registered for D is in no peer set of another
\* note.
C8_PeersAreTheAttachedOthers ==
  /\ \A d \in NoteIds, c \in Clients :
       Peers(noteClientMap, d, c)
         = {x \in Clients : GetNoteIdByClient(noteClientMap, x) = d} \ {c}
  /\ \A c \in Clients, d \in NoteIds, x \in Clients :
       (Registered(c) /\ GetNoteIdByClient(noteClientMap, c) # d)
         => c \notin Peers(noteClientMap, d, x)

\* Two clients are registered for the same note and are each other's peer.
C8_Witness ==
  \E c, c2 \in Clients :
    /\ c # c2
    /\ Peers(noteClientMap, "n1", c) = {c2}
    /\ Peers(noteClientMap, "n1", c2) = {c}

\* C9: the listener invokes, for a frame whose leading integer is 0, 1 or
\* 100, the callback of messageSync, messageAwareness or messageHedgeDoc
\* respectively: that one callback, once, and no other.
C9_CategorySelectsHandler ==
  (lastFrame.client # 0 /\ ~lastFrame.threw) =>
    /\ lastFrame.messageType = 0 => lastFrame.called = <<"messageSync">>
    /\ lastFrame.messageType = 1 => lastFrame.called = <<"messageAwareness">>
    /\ lastFrame.messageType = 100 => lastFrame.called = <<"messageHedgeDoc">>

\* A CONTROL frame was dispatched.
C9_Witness ==
  /\ lastFrame.client # 0 /\ ~lastFrame.threw
  /\ lastFrame.messageType = 100
  /\ lastFrame.called = <<"messageHedgeDoc">>

\* C10: a listener step on a frame whose category is not 0, 1 or 100
\* invokes no callback and changes neither the clients' closed flags, the
\* note-client map nor any other admission state; and a frame of a known
\* category that follows an ignored frame of the same client is dispatched
\* to its handler.
C10_UnknownCategoryIgnored ==
  [][(lastFrame' # lastFrame /\ ~lastFrame'.threw) =>
       /\ lastFrame'.messageType \notin {0, 1, 100} =>
            /\ lastFrame'.called = <<>>
            /\ UNCHANGED <<closed, noteClientMap, pc, calls, disconnects>>
       /\ (lastFrame'.prevIgnored /\ lastFrame'.messageType \in {0, 1, 100}) =>
            Len(lastFrame'.called) = 1]_vars

\* A frame was dispatched right after an ignored frame of the same client.
C10_Witness ==
  /\ lastFrame.prevIgnored
  /\ lastFrame.messageType = 1
  /\ lastFrame.called = <<"messageAwareness">>
  /\ ~closed[lastFrame.client]

\* The note a registered client is registered for.
NoteOf(c) == GetNoteIdByClient(noteClientMap, c)

\* A frame with this payload was sent to this client.
SentTo(E, client, data) ==
  \E e \in E : e.kind = "send" /\ e.client = client /\ e.payload = data

\* C11 (as claimed): no error raised while a frame is handled leaves the
\* 'message' listener; in particular a frame whose leading integer cannot
\* be decoded (empty, or ending in a continuation byte) is caught there.
C11_FrameErrorsCaught ==
  lastFrame.client # 0 => ~lastFrame.threw

\* C12 (as claimed): the listener invokes a handler's callback for a frame
\* only if handleConnection has returned for the client and the client is
\* registered in the note-client map at that moment.
C12_OnlyAttachedClientsAreDispatched ==
  [][(lastFrame' # lastFrame /\ lastFrame'.called # <<>>) =>
       /\ pc[lastFrame'.client] = "returned"
       /\ Registered(lastFrame'.client)]_vars

\* C13 (as claimed): a handleDisconnect step that removes the last client
\* registered for a note finalizes the session of that note (its content
\* is flushed to storage and the session and its presence entries are
\* dropped).
C13_LastDisconnectFinalizes ==
  [][\A c \in Clients :
       ( /\ disconnects'[c] = disconnects[c] + 1
         /\ Registered(c)
         /\ Peers(noteClientMap, NoteOf(c), c) = {} ) =>
         \E e \in effects' \ effects :
           e.kind = "finalize" /\ e.note = NoteOf(c)]_vars

C15_AwarenessStoredAndBroadcast ==
  [][\A c \in Clients, data \in Frames :
       ( /\ OnMessage(c, data)
         /\ lastFrame'.called = <<"messageAwareness">>
         /\ Registered(c) ) =>
         /\ \E e \in effects' :
              e.kind = "presence" /\ e.client = c /\ e.payload = data
         /\ \A p \in Peers(noteClientMap, NoteOf(c), c) :
              SentTo(effects', p, data)]_vars

\* C18 (as claimed): an admission that registers the only client of a note
\* some earlier client had been admitted to creates a session for the note
\* (with a replica seeded from the stored content).
C18_ReadmissionCreatesSession ==
  [][\A c, c0 \in Clients :
       ( /\ c0 # c
         /\ Called(c0, "addClient") /\ lookup[c0].kind = "note"
         /\ ~Registered(c)
         /\ GetNoteIdByClient(noteClientMap', c) = lookup[c0].id
         /\ Peers(noteClientMap', lookup[c0].id, c) = {} ) =>
         \E e \in effects' \ effects :
           e.kind = "session" /\ e.note = lookup[c0].id]_vars

\* C19 (as claimed): once handleConnection has ended for a client, and
\* before any handleDisconnect for it, the client is either closed and
\* not registered or registered and not closed.
C19_AdmissionEndsClosedOrRegistered ==
  \A c \in Clients :
    (pc[c] \in {"returned", "threw"} /\ disconnects[c] = 0) =>
      \/ closed[c] /\ ~Registered(c)
      \/ ~closed[c] /\ Registered(c)

C21_FramesNeverCloseOrDetach ==
  [][(lastFrame' # lastFrame /\ lastFrame'.called # <<>>) =>
       /\ closed' = closed
       /\ noteClientMap' = noteClientMap]_vars

\* A registered client with a peer sent a HEDGEDOC frame and is still open
\* and registered.
C21_Witness ==
  /\ lastFrame.client # 0
  /\ lastFrame.called = <<"messageHedgeDoc">>
  /\ ~closed[lastFrame.client]
  /\ Registered(lastFrame.client)
  /\ Peers(noteClientMap, NoteOf(lastFrame.client), lastFrame.client) # {}

\* No makeAliasPrimary call is between its first await and its return.
NoPrimaryCallInFlight == \A k \in PrimaryCalls : primaryCalls[k].pc = "idle"

\* C22 (as claimed): whenever no makeAliasPrimary call is in flight, every
\* note that has an alias has exactly one primary alias.
C22_ExactlyOnePrimaryAlias ==
  NoPrimaryCallInFlight =>
    \A n \in NoteIds :
      AliasesOf(aliasTable, n) # {} =>
        Cardinality(PrimaryAliases(aliasTable, n)) = 1

\* The update names a user twice or a group twice.
NamesTwice(newPermissions) ==
  \/ \E i, j \in DOMAIN newPermissions.sharedToUsers :
       i # j /\ newPermissions.sharedToUsers[i].name
                  = newPermissions.sharedToUsers[j].name
  \/ \E i, j \in DOMAIN newPermissions.sharedToGroups :
       i # j /\ newPermissions.sharedToGroups[i].name
                  = newPermissions.sharedToGroups[j].name

\* C23: a call of updateNotePermissions whose update names a user or a
\* group twice throws PermissionsUpdateInconsistentError, saves nothing,
\* and leaves the user and group permissions of the note entity and of the
\* note table as they were.
C23_DuplicatesRejectedUnchanged ==
  [][\A n \in NoteIds, newPermissions \in PermissionUpdates :
       \A failAt \in 0..(Len(newPermissions.sharedToUsers)
                           + Len(newPermissions.sharedToGroups)) :
         ( /\ UpdateNotePermissions(n, newPermissions, failAt)
           /\ NamesTwice(newPermissions) ) =>
           /\ lastCall'.error = "PermissionsUpdateInconsistentError"
           /\ ~lastCall'.saved
           /\ lastCall'.entity.userPermissions = notesTable[n].userPermissions
           /\ lastCall'.entity.groupPermissions = notesTable[n].groupPermissions
           /\ notesTable' = notesTable
           /\ aliasTable' = aliasTable]_vars

\* An update naming a user or group twice was rejected for a note that
\* has user and group permissions.
C23_Witness ==
  /\ lastCall.op = "updateNotePermissions"
  /\ lastCall.error = "PermissionsUpdateInconsistentError"
  /\ notesTable[lastCall.note].userPermissions # <<>>
  /\ notesTable[lastCall.note].groupPermissions # <<>>
  /\ lastCall.entity = notesTable[lastCall.note]

\* C24 (as claimed): updateNote appends one revision with the new content
\* and leaves the owner, the aliases and the user and group permissions of
\* the note as they were.
C24_UpdateNoteOnlyAppendsRevision ==
  [][\A n \in NoteIds, noteContent \in Contents :
       UpdateNote(n, noteContent) =>
         /\ notesTable'[n].revisions = Append(notesTable[n].revisions, noteContent)
         /\ notesTable'[n].owner = notesTable[n].owner
         /\ AliasesOf(aliasTable', n) = AliasesOf(aliasTable, n)
         /\ notesTable'[n].userPermissions = notesTable[n].userPermissions
         /\ notesTable'[n].groupPermissions = notesTable[n].groupPermissions]_vars

====
